---- MODULE Spec2Model ----
(***************************************************************************)
(* Model of fetch_premium_data.py (MON100 premium tracker).                *)
(*                                                                         *)
(* Numbers.  A float is a pair <<n, d>>: d > 0 is the rational n/d in      *)
(* lowest terms, <<1,0>> is +inf, <<-1,0>> is -inf, <<0,0>> is NaN, and    *)
(* <<0,-1>> is Python's None.  Arithmetic follows IEEE-754 for the special *)
(* values (x/0 = +-inf, 0/0 = NaN, inf*0 = NaN, inf-inf = NaN); finite     *)
(* results are exact, so binary rounding error is abstracted away.         *)
(*                                                                         *)
(* Dates.  A datetime is a day number; day 1 is 2024-12-30, so that the    *)
(* modelled range crosses a month and a year boundary.                     *)
(***************************************************************************)
EXTENDS Integers, Sequences, FiniteSets, TLC

\* ------------------------------------------------------------------ bounds
MaxDate == 3

MaxRecs == 2

\* The market close and the published NAV of a day, when there is one, and
\* the values a forex close can take (all finite and non-negative).
PriceOn(d) == 2 + (d % 2)

NavOn(d) == d

RateValues == {0, 1, 2}

\* The nav numbers a raw API record can spell.
NavValues == {1, 2}

Dates == 1..MaxDate

\* ------------------------------------------------------------ float values
NaN == <<0, 0>>

PosInf == <<1, 0>>

NegInf == <<-1, 0>>

None == <<0, -1>>

Abs(i) == IF i < 0 THEN -i ELSE i

RECURSIVE Gcd(_, _)
Gcd(a, b) == IF b = 0 THEN a ELSE Gcd(b, a % b)

\* The float n/d for d # 0, in lowest terms with a positive denominator.
Rat(n, d) ==
    LET g == Gcd(Abs(n), Abs(d))
        s == IF d < 0 THEN -1 ELSE 1
    IN  <<(s * n) \div g, (s * d) \div g>>

F(i) == <<i, 1>>

IsNaN(x) == x = NaN

IsNone(x) == x = None

IsInf(x) == x[2] = 0 /\ x[1] # 0

IsFin(x) == x[2] > 0

Sgn(x) == IF x[1] > 0 THEN 1 ELSE IF x[1] < 0 THEN -1 ELSE 0

InfOf(s) == IF s < 0 THEN NegInf ELSE PosInf

FNeg(x) == <<-x[1], x[2]>>

FAdd(a, b) ==
    IF IsNaN(a) \/ IsNaN(b) THEN NaN
    ELSE IF IsInf(a) /\ IsInf(b) THEN (IF a = b THEN a ELSE NaN)
    ELSE IF IsInf(a) THEN a
    ELSE IF IsInf(b) THEN b
    ELSE Rat(a[1] * b[2] + b[1] * a[2], a[2] * b[2])

FSub(a, b) == FAdd(a, FNeg(b))

FMul(a, b) ==
    IF IsNaN(a) \/ IsNaN(b) THEN NaN
    ELSE IF IsInf(a) \/ IsInf(b)
         THEN (IF Sgn(a) = 0 \/ Sgn(b) = 0 THEN NaN ELSE InfOf(Sgn(a) * Sgn(b)))
    ELSE Rat(a[1] * b[1], a[2] * b[2])

\* Division on floats never raises: a zero divisor gives +-inf or NaN.
FDiv(a, b) ==
    IF IsNaN(a) \/ IsNaN(b) THEN NaN
    ELSE IF IsInf(a) /\ IsInf(b) THEN NaN
    ELSE IF IsInf(a) THEN InfOf(Sgn(a) * (IF Sgn(b) < 0 THEN -1 ELSE 1))
    ELSE IF IsInf(b) THEN F(0)
    ELSE IF b[1] = 0 THEN (IF a[1] = 0 THEN NaN ELSE InfOf(Sgn(a)))
    ELSE Rat(a[1] * b[2], a[2] * b[1])

\* a < b on non-NaN floats.
FLess(a, b) ==
    IF a = b THEN FALSE
    ELSE IF a = NegInf \/ b = PosInf THEN TRUE
    ELSE IF a = PosInf \/ b = NegInf THEN FALSE
    ELSE a[1] * b[2] < b[1] * a[2]

\* floor(n/d) for d > 0.
FloorDiv(n, d) == IF n >= 0 THEN n \div d ELSE -((-n + d - 1) \div d)

\* The integer nearest to n/d (d > 0), ties to the even neighbour.
RoundHalfEven(n, d) ==
    LET q == FloorDiv(n, d)
        r == n - q * d
    IN  IF 2 * r < d THEN q
        ELSE IF 2 * r > d THEN q + 1
        ELSE IF q % 2 = 0 THEN q ELSE q + 1

Pow10(k) == IF k = 2 THEN 100 ELSE IF k = 4 THEN 10000 ELSE 1

\* Python round(x, k) on a float: NaN and +-inf are returned unchanged.
Round(x, k) ==
    IF ~IsFin(x) THEN x
    ELSE Rat(RoundHalfEven(x[1] * Pow10(k), x[2]), Pow10(k))

\* ------------------------------------------------------------- data frames
\* A DataFrame with one value column is a sequence of rows [date, val] in
\* index order.  NaT (no datetime) is day 0.
NaT == 0

Row(d, v) == [date |-> d, val |-> v]

Max(S) == CHOOSE x \in S : \A y \in S : y <= x

Min(S) == CHOOSE x \in S : \A y \in S : x <= y

Index(df) == {df[i].date : i \in 1..Len(df)}

\* df.reindex(target, method='ffill') at one target label: the value of the
\* last row whose label is <= t (the index is sorted), NaN when there is none.
ReindexFfill(df, t) ==
    LET S == {i \in 1..Len(df) : df[i].date <= t}
    IN  IF S = {} THEN NaN ELSE df[Max(S)].val

\* nav_dates[nav_dates.index <= idx].index[-1], or NaT when the mask is empty.
NavDateFirst(nav_df, idx) ==
    LET IsBefore(r) == r.date <= idx
        masked == SelectSeq(nav_df, IsBefore)
    IN  IF Len(masked) = 0 THEN NaT ELSE masked[1].date

NavDateFor(nav_df, idx) ==
    LET IsBefore(r) == r.date <= idx
        masked == SelectSeq(nav_df, IsBefore)
    IN  IF Len(masked) = 0 THEN NaT ELSE masked[Len(masked)].date

\* forex_df.reindex(pd.date_range(forex min, forex max), method='ffill')
ForexAll(forex_df) ==
    LET lo == Min(Index(forex_df))
        hi == Max(Index(forex_df))
    IN  [k \in 1..(hi - lo + 1) |-> Row(lo + k - 1, ReindexFfill(forex_df, lo + k - 1))]

\* forex_all.loc[x, 'usdinr']
Loc(df, x) == df[CHOOSE i \in 1..Len(df) : df[i].date = x].val

\* lambda x: forex_all.loc[x,'usdinr'] if pd.notna(x) and x in forex_all.index
\*           else np.nan
UsdinrNavDayBackfill(forex_all, x) ==
    IF x # NaT /\ x \in Index(forex_all) THEN Loc(forex_all, x)
    ELSE IF x # NaT /\ x < forex_all[1].date THEN forex_all[1].val
    ELSE NaN

UsdinrNavDay(forex_all, x) ==
    IF x # NaT /\ x \in Index(forex_all) THEN Loc(forex_all, x) ELSE NaN

AdjustedInavSwapped(nav, usdinr, usdinr_nav_day) ==
    FMul(nav, FDiv(usdinr_nav_day, usdinr))

\* result['nav'] * (result['usdinr'] / result['usdinr_nav_day'])
AdjustedInav(nav, usdinr, usdinr_nav_day) ==
    FMul(nav, FDiv(usdinr, usdinr_nav_day))

\* ((result['price'] - result['adjusted_inav']) / result['adjusted_inav']) * 100
Premium(price, adjusted_inav) ==
    FMul(FDiv(FSub(price, adjusted_inav), adjusted_inav), F(100))

\* The merged columns of one price row before dropna.
MergedRow(p, nav_df, forex_df) ==
    LET nd == NavDateFor(nav_df, p.date)
    IN  [date           |-> p.date,
         price          |-> p.val,
         nav            |-> ReindexFfill(nav_df, p.date),
         usdinr         |-> ReindexFfill(forex_df, p.date),
         nav_date       |-> nd,
         usdinr_nav_day |-> UsdinrNavDay(ForexAll(forex_df), nd)]

\* result.dropna(subset=['price', 'nav', 'usdinr', 'usdinr_nav_day'])
Dropna(rows) ==
    LET Complete(r) == ~IsNaN(r.price) /\ ~IsNaN(r.nav) /\ ~IsNaN(r.usdinr)
                       /\ ~IsNaN(r.usdinr_nav_day)
    IN  SelectSeq(rows, Complete)

\* calculate_premium: one row per price date, incomplete rows dropped, then
\* the two derived columns.
calculate_premium(prices_df, nav_df, forex_df) ==
    LET merged == [i \in 1..Len(prices_df) |-> MergedRow(prices_df[i], nav_df, forex_df)]
        kept   == Dropna(merged)
    IN  [i \in 1..Len(kept) |->
            LET r   == kept[i]
                adj == AdjustedInav(r.nav, r.usdinr, r.usdinr_nav_day)
            IN  [date           |-> r.date,
                 price          |-> r.price,
                 nav            |-> r.nav,
                 usdinr         |-> r.usdinr,
                 nav_date       |-> r.nav_date,
                 usdinr_nav_day |-> r.usdinr_nav_day,
                 adjusted_inav  |-> adj,
                 premium        |-> Premium(r.price, adj)]]

\* -------------------------------------------------------------- statistics
\* pandas reductions skip NaN entries (skipna=True).
Valid(premiums) ==
    LET NotNaN(x) == ~IsNaN(x)
    IN  SelectSeq(premiums, NotNaN)

RECURSIVE Insert(_, _)
Insert(x, s) ==
    IF s = <<>> THEN <<x>>
    ELSE IF FLess(x, Head(s)) THEN <<x>> \o s
    ELSE <<Head(s)>> \o Insert(x, Tail(s))

RECURSIVE Sorted(_)
Sorted(s) == IF s = <<>> THEN <<>> ELSE Insert(Head(s), Sorted(Tail(s)))

RECURSIVE Sum(_)
Sum(s) == IF s = <<>> THEN F(0) ELSE FAdd(Head(s), Sum(Tail(s)))

\* Series.min() / Series.max(): NaN when no valid entry is left.
SeriesMin(premiums) ==
    LET v == Sorted(Valid(premiums))
    IN  IF v = <<>> THEN NaN ELSE v[1]

SeriesMax(premiums) ==
    LET v == Sorted(Valid(premiums))
    IN  IF v = <<>> THEN NaN ELSE v[Len(v)]

\* Series.mean()
SeriesMean(premiums) ==
    LET v == Valid(premiums)
    IN  IF v = <<>> THEN NaN ELSE FDiv(Sum(v), F(Len(v)))

\* Series.median(): the middle order statistic, or the mean of the two middle
\* ones for an even count.
SeriesMedian(premiums) ==
    LET v == Sorted(Valid(premiums))
        n == Len(v)
    IN  IF n = 0 THEN NaN
        ELSE IF n % 2 = 1 THEN v[(n + 1) \div 2]
        ELSE FDiv(FAdd(v[n \div 2], v[n \div 2 + 1]), F(2))

\* Linear interpolation as numpy's percentile computes it.
Lerp(a, b, t) ==
    LET diff == FSub(b, a)
    IN  IF FLess(t, Rat(1, 2)) THEN FAdd(a, FMul(diff, t))
        ELSE FSub(b, FMul(diff, FSub(F(1), t)))

\* Series.quantile(qn/qd), interpolation='linear'.
SeriesQuantile(premiums, qn, qd) ==
    LET v    == Sorted(Valid(premiums))
        n    == Len(v)
        lo   == ((n - 1) * qn) \div qd
        frac == Rat((n - 1) * qn - lo * qd, qd)
        hi   == IF lo + 2 <= n THEN lo + 2 ELSE n
    IN  IF n = 0 THEN NaN ELSE Lerp(v[lo + 1], v[hi], frac)

RECURSIVE SumSq(_, _)
SumSq(s, m) ==
    IF s = <<>> THEN F(0)
    ELSE FAdd(FMul(FSub(Head(s), m), FSub(Head(s), m)), SumSq(Tail(s), m))

\* The sample variance (ddof=1): NaN when fewer than two valid entries.
SeriesVar(premiums) ==
    LET v == Valid(premiums)
    IN  IF Len(v) <= 1 THEN NaN
        ELSE FDiv(SumSq(v, SeriesMean(premiums)), F(Len(v) - 1))

RECURSIVE ISqrt(_)
ISqrt(m) ==
    IF m < 2 THEN m
    ELSE LET s == 2 * ISqrt(m \div 4)
         IN  IF (s + 1) * (s + 1) <= m THEN s + 1 ELSE s

\* round(sqrt(x), 2) for a float x >= 0: h is floor(100 * sqrt(x)), and the
\* result is (h+1)/100 exactly when 10000*x - h*h - h exceeds 1/4 (ties go to
\* the even neighbour).  10000*x is split as 10000*q + 10000*r/d.
RoundSqrt(x) ==
    IF ~IsFin(x) THEN x
    ELSE LET d    == x[2]
             q    == x[1] \div d
             r    == x[1] % d
             h    == ISqrt(10000 * q + (10000 * r) \div d)
             rest == 4 * ((10000 * q - h * h - h) * d + 10000 * r)
         IN  IF rest < d THEN Rat(h, 100)
             ELSE IF rest > d THEN Rat(h + 1, 100)
             ELSE IF h % 2 = 0 THEN Rat(h, 100) ELSE Rat(h + 1, 100)

\* 'current': round(premiums.iloc[-1], 2) if len(premiums) > 0 else None
Current(premiums) ==
    IF Len(premiums) > 0 THEN Round(premiums[Len(premiums)], 2) ELSE None

\* calculate_statistics: never raises; 'std' is round(premiums.std(), 2).
calculate_statistics(premiums) ==
    [min     |-> Round(SeriesMin(premiums), 2),
     max     |-> Round(SeriesMax(premiums), 2),
     average |-> Round(SeriesMean(premiums), 2),
     median  |-> Round(SeriesMedian(premiums), 2),
     p25     |-> Round(SeriesQuantile(premiums, 1, 4), 2),
     p75     |-> Round(SeriesQuantile(premiums, 3, 4), 2),
     std     |-> RoundSqrt(SeriesVar(premiums)),
     current |-> Current(premiums)]

\* ---------------------------------------------------------------- calendar
\* d.strftime('%Y-%m-%d'): the zero-padded text, as <<year, month, day>>;
\* texts compare as these triples compare lexicographically.
StrftimeDayFirst(d) == IF d <= 2 THEN <<29 + d, 12, 2024>> ELSE <<d - 2, 1, 2025>>

Strftime(d) == IF d <= 2 THEN <<2024, 12, 29 + d>> ELSE <<2025, 1, d - 2>>

\* datetime.strptime(text, '%d-%m-%Y') on a text <<day, month, year>>:
\* the day number, or NaT standing for the ValueError of an unparseable text.
Strptime(text) ==
    LET S == {d \in 1..33 : Strftime(d) = <<text[3], text[2], text[1]>>}
    IN  IF S = {} THEN NaT ELSE CHOOSE d \in S : TRUE

TextLess(a, b) ==
    \/ a[1] < b[1]
    \/ a[1] = b[1] /\ a[2] < b[2]
    \/ a[1] = b[1] /\ a[2] = b[2] /\ a[3] < b[3]

\* ---------------------------------------------------------- fetch_nav_data
\* A JSON field of one NAV record: absent key, null (or any non-string), or
\* a string.  A date string is the text <<day, month, year>>; a nav string is
\* the number it spells, or -1 for a non-numeric text.
Field(t, v) == [t |-> t, v |-> v]

NoText == <<0, 0, 0>>

\* One pass of the parsing loop body: "skip" (ValueError/KeyError caught),
\* "raise" (TypeError, not caught by the loop) or "append" with the row.
ParseRecord(record) ==
    IF record.date.t = "absent" THEN [act |-> "skip", row |-> Row(NaT, NaN)]
    ELSE IF record.date.t = "null" THEN [act |-> "raise", row |-> Row(NaT, NaN)]
    ELSE IF Strptime(record.date.v) = NaT THEN [act |-> "skip", row |-> Row(NaT, NaN)]
    ELSE IF record.nav.t = "absent" THEN [act |-> "skip", row |-> Row(NaT, NaN)]
    ELSE IF record.nav.t = "null" THEN [act |-> "raise", row |-> Row(NaT, NaN)]
    ELSE IF record.nav.v < 0 THEN [act |-> "skip", row |-> Row(NaT, NaN)]
    ELSE [act |-> "append", row |-> Row(Strptime(record.date.v), F(record.nav.v))]

\* The for loop over data['data'].
RECURSIVE ParseLoop(_, _)
ParseLoop(data, nav_records) ==
    IF data = <<>> THEN [exc |-> "none", df |-> nav_records]
    ELSE LET r == ParseRecord(Head(data))
         IN  IF r.act = "raise" THEN [exc |-> "TypeError", df |-> <<>>]
             ELSE IF r.act = "skip" THEN ParseLoop(Tail(data), nav_records)
             ELSE ParseLoop(Tail(data), Append(nav_records, r.row))

RECURSIVE InsertRow(_, _)
InsertRow(r, s) ==
    IF s = <<>> THEN <<r>>
    ELSE IF r.date < Head(s).date THEN <<r>> \o s
    ELSE <<Head(s)>> \o InsertRow(r, Tail(s))

\* df.sort_index()
RECURSIVE SortIndex(_)
SortIndex(df) ==
    IF df = <<>> THEN <<>>
    ELSE InsertRow(df[Len(df)], SortIndex(SubSeq(df, 1, Len(df) - 1)))

\* fetch_nav_data on one HTTP response.  exc = "none" is a normal return.
fetch_nav_data(resp) ==
    IF resp.http # "ok" THEN [exc |-> "RequestException", df |-> <<>>]
    ELSE IF ~resp.has_data THEN [exc |-> "ValueError", df |-> <<>>]
    ELSE LET parsed == ParseLoop(resp.data, <<>>)
         IN  IF parsed.exc # "none" THEN parsed
             \* pd.DataFrame([]).set_index('date'): no 'date' column
             ELSE IF parsed.df = <<>> THEN [exc |-> "KeyError", df |-> <<>>]
             ELSE [exc |-> "none", df |-> SortIndex(parsed.df)]

\* ------------------------------------------------------------ save_to_json
\* result_df['premium']
PremiumColumn(df) == [i \in 1..Len(df) |-> df[i].premium]

\* The JSON object written by save_to_json (last_updated, a wall-clock text,
\* is left out).
save_to_json(df, stats_) ==
    LET rows == 1..Len(df)
    IN  [dates          |-> [i \in rows |-> Strftime(df[i].date)],
         premiums       |-> [i \in rows |-> Round(df[i].premium, 2)],
         prices         |-> [i \in rows |-> Round(df[i].price, 2)],
         navs           |-> [i \in rows |-> Round(df[i].nav, 2)],
         adjusted_inavs |-> [i \in rows |-> Round(df[i].adjusted_inav, 2)],
         usdinr         |-> [i \in rows |-> Round(df[i].usdinr, 4)],
         stats          |-> stats_,
         data_points    |-> Len(df)]

\* ---------------------------------------------------------- external world
RECURSIVE SortedSeqOf(_)
SortedSeqOf(S) ==
    IF S = {} THEN <<>>
    ELSE LET m == Min(S) IN <<m>> \o SortedSeqOf(S \ {m})

\* The series a fetcher can return: strictly increasing dates, one value each.
SeriesOf(f) ==
    LET ds == SortedSeqOf(DOMAIN f)
    IN  [i \in 1..Len(ds) |-> Row(ds[i], F(f[ds[i]]))]

SeriesOver(Vals) ==
    UNION {{SeriesOf(f) : f \in [S -> Vals]} : S \in SUBSET Dates}

PriceSeries == {SeriesOf([d \in S |-> PriceOn(d)]) : S \in SUBSET Dates}

NavSeries == {SeriesOf([d \in S |-> NavOn(d)]) : S \in SUBSET Dates}

\* '%d-%m-%Y' text of a day.
DateText(d) == <<Strftime(d)[3], Strftime(d)[2], Strftime(d)[1]>>

GoodRecord(r) == [date |-> Field("str", DateText(r.date)), nav |-> Field("str", r.val[1])]

\* 31-02-2025 is no calendar day.
DateFields ==
    {Field("absent", NoText), Field("null", NoText), Field("str", <<31, 2, 2025>>)}
    \cup {Field("str", DateText(d)) : d \in Dates}

NavFields ==
    {Field("absent", -1), Field("null", -1), Field("str", -1)}
    \cup {Field("str", v) : v \in NavValues}

RawRecords == [date : DateFields, nav : NavFields]

SeqsUpTo(S, n) == UNION {[1..k -> S] : k \in 0..n}

\* Responses of the NAV API: any payload of at most MaxRecs records.
NavResponses ==
    [http : {"ok", "error"}, has_data : BOOLEAN, data : SeqsUpTo(RawRecords, MaxRecs)]

Reverse(s) == [i \in 1..Len(s) |-> s[Len(s) + 1 - i]]

\* Malformed records a history payload can carry in front.
JunkRecords ==
    {[date |-> Field("str", DateText(1)), nav |-> Field("absent", -1)],
     [date |-> Field("str", <<31, 2, 2025>>), nav |-> Field("str", 1)],
     [date |-> Field("str", DateText(1)), nav |-> Field("null", -1)]}

\* Responses seen by a whole run: the fund's history, newest first, with at
\* most one malformed record in front, or a failed / data-less response.
HistoryResponses ==
    LET hist == {[i \in 1..Len(h) |-> GoodRecord(Reverse(h)[i])] : h \in NavSeries}
    IN  {[http |-> "ok", has_data |-> TRUE, data |-> d] : d \in hist}
        \cup {[http |-> "ok", has_data |-> TRUE, data |-> <<j>> \o d] : j \in JunkRecords, d \in hist}
        \cup {[http |-> "error", has_data |-> FALSE, data |-> <<>>],
              [http |-> "ok", has_data |-> FALSE, data |-> <<>>]}

\* ------------------------------------------------------------------- state
VARIABLES
    pc,          \* position of main
    start_date,  \* main: end_date - timedelta(days=730)
    end_date,    \* main: datetime.now()
    prices_df, nav_df, forex_df,
    result_df,   \* calculate_premium's result
    stats,       \* calculate_statistics' result
    output,      \* content of premium_data.json
    writes,      \* number of times the output file was opened for writing
    exit_code,   \* main's return value, -1 while running
    steps,       \* history: the steps of main completed so far
    failed,      \* history: the step that raised, "none" if none
    nv_resp,     \* fetch_nav_data alone: the response
    nv_result    \* fetch_nav_data alone: its outcome

vars == <<pc, start_date, end_date, prices_df, nav_df, forex_df, result_df,
          stats, output, writes, exit_code, steps, failed, nv_resp, nv_result>>

mainVars == <<pc, start_date, end_date, prices_df, nav_df, forex_df, result_df,
              stats, output, writes, exit_code, steps, failed>>

navVars == <<nv_resp, nv_result>>

NoStats == calculate_statistics(<<>>)

NoOutput == save_to_json(<<>>, NoStats)

NoResp == [http |-> "error", has_data |-> FALSE, data |-> <<>>]

Pending == [exc |-> "pending", df |-> <<>>]

\* The lookback window of main, in days (730 in the program).
WindowDays == MaxDate - 1

NowValues == {MaxDate, MaxDate + 1}

MainStart(now) ==
    /\ pc = "fetch_prices"
    /\ end_date = now
    /\ start_date = now - WindowDays
    /\ prices_df = <<>> /\ nav_df = <<>> /\ forex_df = <<>> /\ result_df = <<>>
    /\ stats = NoStats
    /\ output = NoOutput
    /\ writes = 0
    /\ exit_code = -1
    /\ steps = <<>>
    /\ failed = "none"

Init ==
    /\ \E now \in NowValues : MainStart(now)
    /\ nv_resp = NoResp
    /\ nv_result = Pending

\* except Exception: ... return 1
Raise(step) ==
    /\ pc' = "done"
    /\ exit_code' = 1
    /\ failed' = step

Done(step, next) ==
    /\ pc' = next
    /\ steps' = Append(steps, step)

\* prices_df = fetch_mon100_prices(start_str, end_str)
FetchPrices ==
    /\ pc = "fetch_prices"
    /\ \E ok \in BOOLEAN, df \in PriceSeries :
          IF ~ok \/ df = <<>>
          THEN /\ Raise("fetch_prices")
               /\ UNCHANGED <<prices_df, steps>>
          ELSE /\ prices_df' = df
               /\ Done("fetch_prices", "fetch_nav")
               /\ UNCHANGED <<exit_code, failed>>
    /\ UNCHANGED <<start_date, end_date, nav_df, forex_df, result_df, stats,
                   output, writes, navVars>>

\* nav_df = fetch_nav_data()
FetchNav ==
    /\ pc = "fetch_nav"
    /\ \E resp \in HistoryResponses :
          LET r == fetch_nav_data(resp)
          IN  IF r.exc # "none"
              THEN /\ Raise("fetch_nav")
                   /\ UNCHANGED <<nav_df, steps>>
              ELSE /\ nav_df' = r.df
                   /\ Done("fetch_nav", "fetch_forex")
                   /\ UNCHANGED <<exit_code, failed>>
    /\ UNCHANGED <<start_date, end_date, prices_df, forex_df, result_df, stats,
                   output, writes, navVars>>

\* forex_df = fetch_usdinr_rates(start_str, end_str)
FetchForex ==
    /\ pc = "fetch_forex"
    /\ \E ok \in BOOLEAN, df \in SeriesOver(RateValues) :
          IF ~ok \/ df = <<>>
          THEN /\ Raise("fetch_forex")
               /\ UNCHANGED <<forex_df, steps>>
          ELSE /\ forex_df' = df
               /\ Done("fetch_forex", "align")
               /\ UNCHANGED <<exit_code, failed>>
    /\ UNCHANGED <<start_date, end_date, prices_df, nav_df, result_df, stats,
                   output, writes, navVars>>

\* nav_df[(nav_df.index >= start_date) & (nav_df.index <= end_date)]
FilterNav(df, lo, hi) ==
    LET InRange(r) == r.date >= lo /\ r.date <= hi
    IN  SelectSeq(df, InRange)

\* The NAV filter and result_df = calculate_premium(prices_df, nav_df, forex_df)
Align ==
    /\ pc = "align"
    /\ nav_df' = FilterNav(nav_df, start_date, end_date)
    /\ result_df' = calculate_premium(prices_df, nav_df', forex_df)
    /\ Done("align", "statistics")
    /\ UNCHANGED <<start_date, end_date, prices_df, forex_df, stats, output,
                   writes, exit_code, failed, navVars>>

\* stats = calculate_statistics(result_df['premium'])
Statistics ==
    /\ pc = "statistics"
    /\ stats' = calculate_statistics(PremiumColumn(result_df))
    /\ Done("statistics", "summary")
    /\ UNCHANGED <<start_date, end_date, prices_df, nav_df, forex_df, result_df,
                   output, writes, exit_code, failed, navVars>>

SummaryNeverRaises(df, st) == FALSE

\* The summary prints raise on an empty result: NaT has no strftime, and
\* None has no '.2f' format.
SummaryRaises(df, st) ==
    \/ Len(df) = 0
    \/ \E k \in DOMAIN st : IsNone(st[k])

Summary ==
    /\ pc = "summary"
    /\ IF SummaryRaises(result_df, stats)
       THEN /\ Raise("summary")
            /\ UNCHANGED steps
       ELSE /\ Done("summary", "save")
            /\ UNCHANGED <<exit_code, failed>>
    /\ UNCHANGED <<start_date, end_date, prices_df, nav_df, forex_df, result_df,
                   stats, output, writes, navVars>>

\* save_to_json(result_df, stats, 'premium_data.json'); return 0
\* open() may fail before anything is written, json.dump may fail after.
Save ==
    /\ pc = "save"
    /\ \E outcome \in {"ok", "open_fails", "dump_fails"} :
          /\ writes' = IF outcome = "open_fails" THEN writes ELSE writes + 1
          /\ output' = IF outcome = "ok" THEN save_to_json(result_df, stats) ELSE output
          /\ IF outcome = "ok"
             THEN /\ Done("save", "done")
                  /\ exit_code' = 0
                  /\ UNCHANGED failed
             ELSE /\ Raise("save")
                  /\ UNCHANGED steps
    /\ UNCHANGED <<start_date, end_date, prices_df, nav_df, forex_df, result_df,
                   stats, navVars>>

Next == FetchPrices \/ FetchNav \/ FetchForex \/ Align \/ Statistics \/ Summary \/ Save

Spec == Init /\ [][Next]_vars

\* ----------------------------------------------- fetch_nav_data on its own
NavInit ==
    /\ pc = "idle"
    /\ end_date = MaxDate
    /\ start_date = MaxDate - WindowDays
    /\ prices_df = <<>> /\ nav_df = <<>> /\ forex_df = <<>> /\ result_df = <<>>
    /\ stats = NoStats
    /\ output = NoOutput
    /\ writes = 0
    /\ exit_code = -1
    /\ steps = <<>>
    /\ failed = "none"
    /\ nv_resp \in NavResponses
    /\ nv_result = Pending

CallFetchNav ==
    /\ nv_result = Pending
    /\ nv_result' = fetch_nav_data(nv_resp)
    /\ UNCHANGED <<nv_resp, mainVars>>

NavNext == CallFetchNav

SpecNav == NavInit /\ [][NavNext]_vars

\* ================================================================== claims
Range(s) == {s[i] : i \in 1..Len(s)}

\* calculate_premium has returned; prices_df, nav_df and forex_df are the
\* three series it was given.
Aligned == "align" \in Range(steps)

PriceDates == Index(prices_df)

NavDates == Index(nav_df)

ForexDates == Index(forex_df)

OnOrBefore(S, d) == {x \in S : x <= d}

\* The value a series publishes on exactly the date d.
ValueOn(df, d) == (CHOOSE r \in Range(df) : r.date = d).val

\* The most recent forex rate observed on or before d.
RateAsOf(d) == ValueOn(forex_df, Max(OnOrBefore(ForexDates, d)))

\* The latest NAV date not after d.
NavDateAsOf(d) == Max(OnOrBefore(NavDates, d))

RecordsFor(d) == {i \in 1..Len(result_df) : result_df[i].date = d}

\* A trade date all of whose lookups resolve, with a non-zero NAV-day rate.
Resolvable(d) ==
    /\ OnOrBefore(NavDates, d) # {}
    /\ OnOrBefore(ForexDates, d) # {}
    /\ OnOrBefore(ForexDates, NavDateAsOf(d)) # {}
    /\ RateAsOf(NavDateAsOf(d)) # F(0)

\* C1 (as claimed): every resolvable trade date gets exactly one record, with
\* the forward-filled rates of the trade date and of the NAV date, also when
\* the NAV date lies after the last forex observation.
C1_Completeness ==
    Aligned =>
        \A d \in PriceDates :
            Resolvable(d) =>
                /\ Cardinality(RecordsFor(d)) = 1
                /\ \A i \in RecordsFor(d) :
                      /\ result_df[i].usdinr = RateAsOf(d)
                      /\ result_df[i].usdinr_nav_day = RateAsOf(NavDateAsOf(d))

\* C2: every record's nav_date is the latest NAV date not after its trade
\* date, and its nav is the value published on that nav_date.
C2_LatestNav ==
    Aligned =>
        \A i \in 1..Len(result_df) :
            LET r == result_df[i]
            IN  /\ r.nav_date \in NavDates
                /\ r.nav_date <= r.date
                /\ ~\E m \in NavDates : r.nav_date < m /\ m <= r.date
                /\ r.nav = ValueOn(nav_df, r.nav_date)

\* A record that carries an older NAV forward past an earlier NAV date.
C2_Witness ==
    /\ Aligned
    /\ \E i \in 1..Len(result_df) :
          /\ result_df[i].nav_date < result_df[i].date
          /\ \E m \in NavDates : m < result_df[i].nav_date

\* C3 (as claimed): no record has a zero NAV-day rate, and none carries a
\* value obtained by dividing by zero.
C3_DivisionGuard ==
    Aligned =>
        \A i \in 1..Len(result_df) :
            /\ result_df[i].usdinr_nav_day # F(0)
            /\ IsFin(FDiv(result_df[i].usdinr, result_df[i].usdinr_nav_day))

\* C4: a trade date with no NAV on or before it, no forex observation on or
\* before it, or no forex observation on or before its NAV date gets no record.
C4_NoBackfill ==
    Aligned =>
        \A d \in PriceDates :
            (\/ OnOrBefore(NavDates, d) = {}
             \/ OnOrBefore(ForexDates, d) = {}
             \/ OnOrBefore(ForexDates, NavDateAsOf(d)) = {})
            => RecordsFor(d) = {}

\* A trade date with a NAV and a rate of its own, skipped because the first
\* forex observation is later than its NAV date.
C4_Witness ==
    /\ Aligned
    /\ \E d \in PriceDates :
          /\ OnOrBefore(NavDates, d) # {}
          /\ OnOrBefore(ForexDates, d) # {}
          /\ OnOrBefore(ForexDates, NavDateAsOf(d)) = {}
          /\ RecordsFor(d) = {}

\* C5 (as claimed): calculate_statistics does not return on an empty premium
\* sequence (it raises EmptySeries).
C5_EmptySeriesRaises ==
    ~("statistics" \in Range(steps) /\ Len(result_df) = 0)

AllSteps ==
    <<"fetch_prices", "fetch_nav", "fetch_forex", "align", "statistics", "summary", "save">>

\* C6: exit code 0 only after every step completed; a failed step or a
\* zero-record aligned series gives a non-zero exit code; the output file is
\* written at most once, as the last step, after every other step succeeded.
C6_ExitCode ==
    /\ exit_code = 0 => (pc = "done" /\ steps = AllSteps /\ failed = "none")
    /\ failed # "none" => (pc = "done" /\ exit_code = 1)
    /\ (pc = "done" /\ Aligned /\ Len(result_df) = 0) => exit_code = 1
    /\ pc = "done" => exit_code \in {0, 1}
    /\ writes <= 1
    /\ writes = 1 =>
          /\ pc = "done"
          /\ SubSeq(steps, 1, 6) = SubSeq(AllSteps, 1, 6)
          /\ failed \in {"none", "save"}

\* A run whose alignment produced no record: it ends with exit code 1 and
\* nothing written.
C6_Witness ==
    /\ pc = "done"
    /\ Aligned
    /\ Len(result_df) = 0
    /\ exit_code = 1
    /\ writes = 0

Written == "save" \in Range(steps)

\* C7: in the written output, dates is strictly increasing with one entry per
\* aligned record, all value sequences have the length and order of dates,
\* data_points is that length, and it is at most the price series' length.
C7_OutputShape ==
    Written =>
        LET n == Len(output.dates)
        IN  /\ n = Len(result_df)
            /\ \A i \in 1..(n - 1) : TextLess(output.dates[i], output.dates[i + 1])
            /\ Len(output.premiums) = n
            /\ Len(output.prices) = n
            /\ Len(output.navs) = n
            /\ Len(output.adjusted_inavs) = n
            /\ Len(output.usdinr) = n
            /\ output.data_points = n
            /\ n <= Len(prices_df)
            /\ \A i \in 1..n :
                  LET d == result_df[i].date
                  IN  /\ output.dates[i] = Strftime(d)
                      /\ output.prices[i] = Round(ValueOn(prices_df, d), 2)
                      /\ output.navs[i] = Round(ValueOn(nav_df, NavDateAsOf(d)), 2)
                      /\ output.usdinr[i] = Round(RateAsOf(d), 4)
                      /\ output.premiums[i] = Round(result_df[i].premium, 2)
                      /\ output.adjusted_inavs[i] = Round(result_df[i].adjusted_inav, 2)

\* An output of several records whose dates cross the year boundary, written
\* from a price series with a date that was dropped.
C7_Witness ==
    /\ Written
    /\ Len(output.dates) >= 2
    /\ Len(output.dates) < Len(prices_df)
    /\ output.dates[1][1] < output.dates[Len(output.dates)][1]

StatKeys == {"min", "max", "average", "median", "p25", "p75", "std", "current"}

\* C8 (as claimed): for a non-empty sequence of finite premiums, every
\* statistic calculate_statistics returns is a finite number of 2 decimals or
\* null (None), never NaN.
C8_StatsFiniteOrNull ==
    (/\ "statistics" \in Range(steps)
     /\ Len(result_df) > 0
     /\ \A i \in 1..Len(result_df) : IsFin(result_df[i].premium)) =>
        \A k \in StatKeys :
            \/ IsNone(stats[k])
            \/ IsFin(stats[k]) /\ Round(stats[k], 2) = stats[k]

WellFormed(rec) ==
    /\ rec.date.t = "str" /\ Strptime(rec.date.v) # NaT
    /\ rec.nav.t = "str" /\ rec.nav.v >= 0

\* C9 (as claimed): when an HTTP-ok response with a 'data' field carries
\* malformed records next to well-formed ones, fetch_nav_data returns, and
\* returns exactly the well-formed records, sorted by date.
C9_MalformedDropped ==
    (/\ nv_result # Pending
     /\ nv_resp.http = "ok" /\ nv_resp.has_data
     /\ \E i \in 1..Len(nv_resp.data) : WellFormed(nv_resp.data[i])
     /\ \E i \in 1..Len(nv_resp.data) : ~WellFormed(nv_resp.data[i])) =>
        LET good == {i \in 1..Len(nv_resp.data) : WellFormed(nv_resp.data[i])}
            df   == nv_result.df
        IN  /\ nv_result.exc = "none"
            /\ Len(df) = Cardinality(good)
            /\ \A i \in 1..(Len(df) - 1) : df[i].date <= df[i + 1].date
            /\ \A i \in good :
                  \E j \in 1..Len(df) :
                      /\ df[j].date = Strptime(nv_resp.data[i].date.v)
                      /\ df[j].val = F(nv_resp.data[i].nav.v)

\* C10: every record's adjusted value is nav(n) * (rate(d) / rate(n)) and its
\* premium is (price(d) - adjusted) / adjusted * 100, for its trade date d and
\* NAV date n, the rates being those observed most recently on or before d
\* and n (in float arithmetic: a zero rate(n) gives inf or NaN).
C10_Formula ==
    Aligned =>
        \A i \in 1..Len(result_df) :
            LET r   == result_df[i]
                adj == FMul(ValueOn(nav_df, r.nav_date),
                            FDiv(RateAsOf(r.date), RateAsOf(r.nav_date)))
            IN  /\ r.adjusted_inav = adj
                /\ r.premium =
                      FMul(FDiv(FSub(ValueOn(prices_df, r.date), adj), adj), F(100))

\* A record whose two rates differ and are non-zero, with a non-zero premium.
C10_Witness ==
    /\ Aligned
    /\ \E i \in 1..Len(result_df) :
          LET r == result_df[i]
          IN  /\ r.nav_date < r.date
              /\ r.usdinr # r.usdinr_nav_day
              /\ r.usdinr # F(0) /\ r.usdinr_nav_day # F(0)
              /\ IsFin(r.premium) /\ r.premium # F(0)

====
